---- MODULE Spec2Model ----
(***************************************************************************)
(* Model of the experiment sweep of run-experiments.go: runAllExperiments  *)
(* with its host pool (a buffered channel), the banker mutex, requireN,    *)
(* returnAll, the experiment goroutines started by run, runExperiment and  *)
(* the lock-protected result log; of reschedule and GenPeerList as pure    *)
(* functions (FnSpec); and of kungfu-run.go: main with its start-up        *)
(* errors, the watch mode with its Stage channel and server, and simpleRun *)
(* (KrSpec).                                                               *)
(***************************************************************************)
EXTENDS Integers, Sequences, FiniteSets, TLC

\* ---------------------------------------------------------------- bounds
\* Largest number of hosts given with -H.
MaxHosts == 2
\* Number of consecutive run(...) calls of the sweep that are followed.
MaxRuns == 2

\* Slot counts a parsed host may have.
SlotChoices == {2, 4}

\* ------------------------------------------------------- program constants
Algos == <<"Simple", "Ring", "Clique", "Tree">>

Partitions == << <<1>>, <<2>>, <<3>>, <<4>>,
                 <<1, 3>>, <<2, 2>>, <<3, 3>>, <<4, 4>> >>

\* The sequence of run(a, partition) calls made by the sweep loop.
FullSweep ==
    [k \in 1..(Len(Algos) * Len(Partitions)) |->
        [Algo      |-> Algos[((k - 1) \div Len(Partitions)) + 1],
         Partition |-> Partitions[((k - 1) % Len(Partitions)) + 1]]]

\* Where the followed window of run calls may start: in the one-host
\* partitions and at the first two-host partition.
Starts == {3, 5}

Tasks == 1..MaxRuns

None == 0

\* A stdout line without the metric label, and one with it.
NoiseLine == [label |-> FALSE, mean |-> 0, conf |-> 0]

MetricLine == [label |-> TRUE, mean |-> 7, conf |-> 1]

\* Captured stdout of a run.
Stdouts == {<<NoiseLine>>, <<NoiseLine, MetricLine>>}

\* Errors RemoteRunAll can return besides nil and the context's deadline.
RunnerErrors == {"transport"}

VARIABLES
    hosts,      \* the parsed host list handed to runAllExperiments
    first,      \* index in FullSweep of the first run call that is followed
    pool,       \* the buffered channel of free hosts
    banker,     \* owner of the banker mutex, None when unlocked
    lock,       \* owner of the result-log mutex, None when unlocked
    wg,         \* the WaitGroup counter
    records,    \* the result log
    mainpc,     \* position of runAllExperiments itself
    next,       \* number of run calls made so far
    pc,         \* position of each experiment goroutine
    hs,         \* hosts a goroutine has received from the pool
    returned,   \* how many of hs returnAll has pushed back
    workers,    \* the rescheduled host list of runExperiment
    ctx,        \* the timeout context of runExperiment
    err,        \* the error runExperiment returned
    res,        \* the *Result runExperiment returned
    fn,         \* a call of reschedule or GenPeerList: its inputs and result
    kr          \* the state of a kungfu-run invocation

\* The variables of the experiment sweep.
sweepVars == <<hosts, first, pool, banker, lock, wg, records, mainpc, next,
               pc, hs, returned, workers, ctx, err, res>>

vars == <<fn, kr, hosts, first, pool, banker, lock, wg, records, mainpc, next,
          pc, hs, returned, workers, ctx, err, res>>

\* ------------------------------------------------------------ pure helpers
Job(t) == FullSweep[first + t - 1]

Need(t) == Len(Job(t).Partition)

\* A pool channel one slot too small.
PoolCapShort == Len(hosts) - 1

\* Capacity of the pool channel.
PoolCap == Len(hosts)

\* An admission test that lets every partition through.
SufficientAlways(hostList, partition) == TRUE

\* run's admission test: the total resource is sufficient.
Sufficient(hostList, partition) == ~(Len(hostList) < Len(partition))

\* requireN's availability test.
Available(p, n) == Len(p) >= n

\* Channel receive: the value received and the channel left behind.
RecvValue(p) == Head(p)

\* A receive that leaves the value in the channel.
RecvRestPeek(p) == p

RecvRest(p) == Tail(p)

\* A send that loses the value.
SendDropped(p, h) == p

\* Channel send.
Send(p, h) == Append(p, h)

\* A take loop that stops one receive early.
TakeDoneEarly(got, n) == ~(Len(got) < n - 1)

\* The take loop of requireN ends after n receives.
TakeDone(got, n) == ~(Len(got) < n)

\* An Unlock that is missing.
StillLocked(owner) == owner

\* banker.Unlock()
Unlocked(owner) == None

\* reschedule's loop from partition index i on: the error and the workers.
RECURSIVE rescheduleFrom(_, _, _)
rescheduleFrom(hostList, partition, i) ==
    IF i > Len(partition) THEN [err |-> "nil", workers |-> << >>]
    ELSE IF hostList[i].Slots < partition[i]
         THEN [err |-> "slots", workers |-> << >>]
         ELSE LET rest == rescheduleFrom(hostList, partition, i + 1)
              IN  IF rest.err # "nil" THEN rest
                  ELSE [err |-> "nil",
                        workers |-> <<[hostList[i] EXCEPT !.Slots = partition[i]]>>
                                        \o rest.workers]

\* A reschedule that hands over the borrowed hosts as they are.
rescheduleAsIs(hostList, partition) ==
    IF Len(hostList) < Len(partition) THEN [err |-> "hosts", workers |-> << >>]
    ELSE [err |-> "nil", workers |-> SubSeq(hostList, 1, Len(partition))]

\* reschedule: the error ("nil" for none) and the shrunk workers.
reschedule(hostList, partition) ==
    IF Len(hostList) < Len(partition) THEN [err |-> "hosts", workers |-> << >>]
    ELSE rescheduleFrom(hostList, partition, 1)

\* A reschedule that writes the shrunk capacity into the caller's slice.
CallerHostsShrunk(hostList, partition) ==
    [i \in DOMAIN hostList |->
        IF i <= Len(partition) /\ ~(hostList[i].Slots < partition[i])
        THEN [hostList[i] EXCEPT !.Slots = partition[i]]
        ELSE hostList[i]]

\* The caller's slice after reschedule: w := hosts[i] copies the record, so
\* w.Slots = p leaves hosts[i] as it was.
CallerHosts(hostList, partition) == hostList

\* An append that starts the log afresh.
AppendedOver(log, r) == <<r>>

\* records = append(records, r)
Appended(log, r) == Append(log, r)

\* The lines of input that contain the metric label.
grep(input) == SelectSeq(input, LAMBDA line : line.label)

\* A nil *Result; a pointer to a Result r is <<r>>.
NilResult == << >>

\* var res Result
ZeroResult == [Mean |-> 0, Conf |-> 0]

parseResult(line) == [Mean |-> line.mean, Conf |-> line.conf]

\* The Result runExperiment hands back for a captured stdout.
ResultOf(out) ==
    IF Len(grep(out)) > 0 THEN parseResult(grep(out)[1]) ELSE ZeroResult

\* A test that never sees the error.
FailedNever(e) == FALSE

\* run's test of runExperiment's error.
Failed(e) == e # "nil"

\* *res, which run evaluates only after it has seen err == nil, when res is
\* not nil.
Deref(p) == IF p = NilResult THEN ZeroResult ELSE p[1]

RecordOf(t) ==
    [Algo |-> Job(t).Algo, Partition |-> Job(t).Partition,
     Result |-> Deref(res[t])]

\* Host lists of a homogeneous cluster: up to MaxHosts hosts of equal slots.
HostLists ==
    {[i \in 1..n |-> [Hostname |-> 0, Slots |-> c]] :
        n \in 0..MaxHosts, c \in SlotChoices}

\* Hostnames are distinct: host i is named i.
Named(hl) == [i \in DOMAIN hl |-> [hl[i] EXCEPT !.Hostname = i]]

\* rch.TotalCap: the slots of hosts i.. of a host list, added up.
RECURSIVE TotalCapFrom(_, _)
TotalCapFrom(hl, i) ==
    IF i > Len(hl) THEN 0 ELSE hl[i].Slots + TotalCapFrom(hl, i + 1)

TotalCap(hl) == TotalCapFrom(hl, 1)

\* The peers of hosts i.. when rank peers are placed already: each host's
\* slots are filled before the next host is used.
RECURSIVE genPeersFrom(_, _, _, _)
genPeersFrom(hl, n, i, rank) ==
    IF rank >= n \/ i > Len(hl) THEN << >>
    ELSE LET k == IF hl[i].Slots < n - rank THEN hl[i].Slots ELSE n - rank
             here == [j \in 1..k |->
                         [Host        |-> hl[i].Hostname,
                          Rank        |-> rank + j - 1,
                          LocalRank   |-> j - 1,
                          ClusterSize |-> n]]
         IN  here \o genPeersFrom(hl, n, i + 1, rank + k)

\* A GenPeerList that hands back the peers that fit when there are too many.
GenPeerListPartial(hl, n) ==
    [err |-> "nil", peers |-> genPeersFrom(hl, n, 1, 0)]

\* hl.GenPeerList(np): the error ("nil" for none) and the peer list.
GenPeerList(hl, n) ==
    IF n > TotalCap(hl) THEN [err |-> "capacity", peers |-> << >>]
    ELSE [err |-> "nil", peers |-> genPeersFrom(hl, n, 1, 0)]

\* jc.CreateProcs(np, strategy): one process spec per peer of the peer list;
\* it fails when the peer list cannot be built or is empty.
CreateProcs(hl, n) ==
    LET g == GenPeerList(hl, n)
    IN  IF g.err # "nil" THEN [err |-> g.err, procs |-> << >>]
        ELSE IF g.peers = << >> THEN [err |-> "empty", procs |-> << >>]
        ELSE [err |-> "nil", procs |-> g.peers]

\* sch.ForHost(selfIP, ps): the process specs whose peer is on this host.
ForHost(self, ps) == SelectSeq(ps, LAMBDA q : q.Host = self)

\* utils.ExitErr(err): the invocation ends at once with a non-zero exit.
ExitErr == "exited"

\* An error test that lets main go on.
OnErrIgnored(e, nextpc) == nextpc

\* if err != nil { utils.ExitErr(...) }: where main is after the test.
OnErr(e, nextpc) == IF e # "nil" THEN ExitErr ELSE nextpc

\* A test that takes the deadline for a failure.
SimpleRunFatalAny(e) == e # "nil"

\* simpleRun's test of the runner's error.
SimpleRunFatal(e) == e # "nil" /\ e # "deadline"

\* A Stage channel of two slots.
StageChanCapTwo == 1 + 1

\* make(chan run.Stage, 1)
StageChanCap == 1

\* A server.Close() that is not deferred.
CloseAtOnce == FALSE

\* defer server.Close(): Close runs when main returns.
CloseDeferred == TRUE

\* The handler's push into the Stage channel: latest wins, an unconsumed
\* Stage is taken out to make room.
Pushed(c, stage) ==
    Append(IF Len(c) < StageChanCap THEN c ELSE Tail(c), stage)

\* The watch loop knows no Stage yet.
NoStage == [Cluster |-> << >>, Checkpoint |-> -1]

\* No kungfu-run invocation is being followed.
KrIdle ==
    [pc |-> "none", watch |-> FALSE, keep |-> FALSE, timeout |-> FALSE,
     np |-> 0, hl |-> << >>, self |-> 0, ctx |-> "none",
     preflight |-> "nil", peers |-> << >>, procs |-> << >>, myPs |-> << >>,
     server |-> "none", serve |-> "none", ch |-> << >>, cur |-> NoStage,
     loop |-> "none", started |-> FALSE, runErr |-> "unset", pushes |-> 0,
     sent |-> {}]

\* No call of reschedule or GenPeerList is being followed.
FnIdle ==
    [op |-> "none", hosts |-> << >>, partition |-> << >>, np |-> 0,
     done |-> FALSE, err |-> "nil", out |-> << >>]

\* ------------------------------------------------------------------- Init
Init ==
    /\ hosts \in {Named(hl) : hl \in HostLists}
    /\ first \in Starts
    /\ pool = hosts
    /\ banker = None
    /\ lock = None
    /\ wg = 0
    /\ records = << >>
    /\ mainpc = "sweep"
    /\ next = 0
    /\ pc = [t \in Tasks |-> "idle"]
    /\ hs = [t \in Tasks |-> << >>]
    /\ returned = [t \in Tasks |-> 0]
    /\ workers = [t \in Tasks |-> << >>]
    /\ ctx = [t \in Tasks |-> "none"]
    /\ err = [t \in Tasks |-> "unset"]
    /\ res = [t \in Tasks |-> NilResult]
    /\ fn = FnIdle
    /\ kr = KrIdle

\* --------------------------------------------------- runAllExperiments
\* run(a, partition) returns at once: total resource not sufficient.
RunSkip ==
    /\ mainpc = "sweep"
    /\ next < MaxRuns
    /\ ~Sufficient(hosts, Job(next + 1).Partition)
    /\ next' = next + 1
    /\ pc' = [pc EXCEPT ![next + 1] = "skipped"]
    /\ UNCHANGED <<fn, kr, hosts, first, pool, banker, lock, wg, records, mainpc,
                   hs, returned, workers, ctx, err, res>>

\* run(a, partition): wg.Add(1) and go func().
RunSpawn ==
    /\ mainpc = "sweep"
    /\ next < MaxRuns
    /\ Sufficient(hosts, Job(next + 1).Partition)
    /\ next' = next + 1
    /\ wg' = wg + 1
    /\ pc' = [pc EXCEPT ![next + 1] = "lock"]
    /\ UNCHANGED <<fn, kr, hosts, first, pool, banker, lock, records, mainpc,
                   hs, returned, workers, ctx, err, res>>

\* The sweep loop is over: wg.Wait().
SweepEnd ==
    /\ mainpc = "sweep"
    /\ next = MaxRuns
    /\ mainpc' = "wait"
    /\ UNCHANGED <<fn, kr, hosts, first, pool, banker, lock, wg, records, next,
                   pc, hs, returned, workers, ctx, err, res>>

\* wg.Wait() returns and runAllExperiments returns records.
WaitReturn ==
    /\ mainpc = "wait"
    /\ wg = 0
    /\ mainpc' = "done"
    /\ UNCHANGED <<fn, kr, hosts, first, pool, banker, lock, wg, records, next,
                   pc, hs, returned, workers, ctx, err, res>>

\* ------------------------------------------------------------- requireN
\* banker.Lock()
BankerLock(t) ==
    /\ pc[t] = "lock"
    /\ banker = None
    /\ banker' = t
    /\ pc' = [pc EXCEPT ![t] = "unlock"]
    /\ UNCHANGED <<fn, kr, hosts, first, pool, lock, wg, records, mainpc, next,
                   hs, returned, workers, ctx, err, res>>

\* banker.Unlock()
BankerUnlock(t) ==
    /\ pc[t] = "unlock"
    /\ banker' = Unlocked(banker)
    /\ pc' = [pc EXCEPT ![t] = "check"]
    /\ UNCHANGED <<fn, kr, hosts, first, pool, lock, wg, records, mainpc, next,
                   hs, returned, workers, ctx, err, res>>

\* if len(pool) >= n { var hs ... } else return nil
Check(t) ==
    /\ pc[t] = "check"
    /\ pc' = [pc EXCEPT ![t] = IF Available(pool, Need(t)) THEN "take" ELSE "tick"]
    /\ UNCHANGED <<fn, kr, hosts, first, pool, banker, lock, wg, records, mainpc,
                   next, hs, returned, workers, ctx, err, res>>

\* hs = append(hs, <-pool); after the n-th receive requireN returns hs.
Take(t) ==
    /\ pc[t] = "take"
    /\ Len(pool) > 0
    /\ LET got == Append(hs[t], RecvValue(pool))
       IN  /\ hs' = [hs EXCEPT ![t] = got]
           /\ pc' = [pc EXCEPT ![t] = IF TakeDone(got, Need(t)) THEN "begin" ELSE "take"]
    /\ pool' = RecvRest(pool)
    /\ UNCHANGED <<fn, kr, hosts, first, banker, lock, wg, records, mainpc, next,
                   returned, workers, ctx, err, res>>

\* <-tk.C
Tick(t) ==
    /\ pc[t] = "tick"
    /\ pc' = [pc EXCEPT ![t] = "lock"]
    /\ UNCHANGED <<fn, kr, hosts, first, pool, banker, lock, wg, records, mainpc,
                   next, hs, returned, workers, ctx, err, res>>

\* ---------------------------------------------------------- runExperiment
\* runExperiment up to the start of RemoteRunAll: reschedule fails, or
\* jc.CreateProcs fails, or context.WithTimeout is made and the run starts.
RunBegin(t) ==
    /\ pc[t] = "begin"
    /\ LET r == reschedule(hs[t], Job(t).Partition)
       IN  IF r.err # "nil"
           THEN /\ err' = [err EXCEPT ![t] = r.err]
                /\ pc' = [pc EXCEPT ![t] = "return"]
                /\ UNCHANGED <<workers, ctx>>
           ELSE \/ /\ err' = [err EXCEPT ![t] = "plan"]
                   /\ pc' = [pc EXCEPT ![t] = "return"]
                   /\ UNCHANGED <<workers, ctx>>
                \/ /\ workers' = [workers EXCEPT ![t] = r.workers]
                   /\ ctx' = [ctx EXCEPT ![t] = "active"]
                   /\ pc' = [pc EXCEPT ![t] = "running"]
                   /\ UNCHANGED err
    /\ hs' = [hs EXCEPT ![t] = CallerHosts(hs[t], Job(t).Partition)]
    /\ UNCHANGED <<fn, kr, hosts, first, pool, banker, lock, wg, records, mainpc,
                   next, returned, res>>

\* Where run goes once runExperiment has returned e.
AfterRun(e) == IF Failed(e) THEN "return" ELSE "loglock"

\* RemoteRunAll returns before the deadline; defer cancel().
RunFinish(t) ==
    /\ pc[t] = "running"
    /\ \E e \in {"nil"} \cup RunnerErrors, out \in Stdouts :
          /\ err' = [err EXCEPT ![t] = e]
          /\ res' = [res EXCEPT ![t] = IF e = "nil" THEN <<ResultOf(out)>>
                                       ELSE NilResult]
          /\ pc' = [pc EXCEPT ![t] = AfterRun(e)]
    /\ ctx' = [ctx EXCEPT ![t] = "cancelled"]
    /\ workers' = [workers EXCEPT ![t] = << >>]
    /\ UNCHANGED <<fn, kr, hosts, first, pool, banker, lock, wg, records, mainpc,
                   next, hs, returned>>

\* The context's deadline fires and RemoteRunAll returns its error.
RunTimeout(t) ==
    /\ pc[t] = "running"
    /\ err' = [err EXCEPT ![t] = "deadline"]
    /\ pc' = [pc EXCEPT ![t] = AfterRun("deadline")]
    /\ ctx' = [ctx EXCEPT ![t] = "expired"]
    /\ workers' = [workers EXCEPT ![t] = << >>]
    /\ UNCHANGED <<fn, kr, hosts, first, pool, banker, lock, wg, records, mainpc,
                   next, hs, returned, res>>

\* ------------------------------------------------------------ result log
\* lock.Lock()
LogLock(t) ==
    /\ pc[t] = "loglock"
    /\ lock = None
    /\ lock' = t
    /\ pc' = [pc EXCEPT ![t] = "append"]
    /\ UNCHANGED <<fn, kr, hosts, first, pool, banker, wg, records, mainpc, next,
                   hs, returned, workers, ctx, err, res>>

\* records = append(records, r); lock.Unlock()
LogAppend(t) ==
    /\ pc[t] = "append"
    /\ records' = Appended(records, RecordOf(t))
    /\ lock' = None
    /\ pc' = [pc EXCEPT ![t] = "return"]
    /\ UNCHANGED <<fn, kr, hosts, first, pool, banker, wg, mainpc, next,
                   hs, returned, workers, ctx, err, res>>

\* -------------------------------------------------------------- returnAll
\* pool <- h for the next h of hs (deferred).
ReturnOne(t) ==
    /\ pc[t] = "return"
    /\ returned[t] < Len(hs[t])
    /\ Len(pool) < PoolCap
    /\ pool' = Send(pool, hs[t][returned[t] + 1])
    /\ returned' = [returned EXCEPT ![t] = returned[t] + 1]
    /\ UNCHANGED <<fn, kr, hosts, first, banker, lock, wg, records, mainpc, next,
                   pc, hs, workers, ctx, err, res>>

\* returnAll is over; wg.Done() (deferred); the goroutine's locals die.
WgDone(t) ==
    /\ pc[t] = "return"
    /\ returned[t] = Len(hs[t])
    /\ wg' = wg - 1
    /\ pc' = [pc EXCEPT ![t] = "done"]
    /\ hs' = [hs EXCEPT ![t] = << >>]
    /\ returned' = [returned EXCEPT ![t] = 0]
    /\ res' = [res EXCEPT ![t] = NilResult]
    /\ UNCHANGED <<fn, kr, hosts, first, pool, banker, lock, records, mainpc, next,
                   workers, ctx, err>>

\* ------------------------------------------------------------------- Next
TaskStep(t) ==
    \/ BankerLock(t)
    \/ BankerUnlock(t)
    \/ Check(t)
    \/ Take(t)
    \/ Tick(t)
    \/ RunBegin(t)
    \/ RunFinish(t)
    \/ RunTimeout(t)
    \/ LogLock(t)
    \/ LogAppend(t)
    \/ ReturnOne(t)
    \/ WgDone(t)

MainStep == RunSkip \/ RunSpawn \/ SweepEnd \/ WaitReturn

Next == MainStep \/ \E t \in Tasks : TaskStep(t)

Spec == Init /\ [][Next]_vars

\* Fair scheduling of the goroutines; every started run terminates.
FairSpec ==
    /\ Spec
    /\ WF_vars(MainStep)
    /\ \A t \in Tasks : WF_vars(TaskStep(t))
    /\ \A t \in Tasks : SF_vars(BankerLock(t))
    /\ \A t \in Tasks : SF_vars(LogLock(t))

TypeOK ==
    /\ banker \in Tasks \cup {None}
    /\ lock \in Tasks \cup {None}
    /\ wg \in 0..MaxRuns
    /\ Len(pool) <= PoolCap

\* ------------------------------------------------------- derived notions
\* Number of hosts task t holds: received and not yet pushed back.
Held(t) == Len(hs[t]) - returned[t]

\* The hosts task t holds.
HeldHosts(t) == {hs[t][i] : i \in (returned[t] + 1)..Len(hs[t])}

\* Number of hosts held by the tasks 1..k.
RECURSIVE SumHeld(_)
SumHeld(k) == IF k = 0 THEN 0 ELSE Held(k) + SumHeld(k - 1)

PoolHosts == {pool[i] : i \in DOMAIN pool}

\* Number of records in the result log for the experiment of task t.
RecordsFor(t) ==
    Len(SelectSeq(records, LAMBDA r : /\ r.Algo = Job(t).Algo
                                      /\ r.Partition = Job(t).Partition))

\* Task t was started as a goroutine.
Spawned(t) == pc[t] \notin {"idle", "skipped"}

\* runExperiment of task t has returned an error.
HasFailed(t) == err[t] \notin {"unset", "nil"}

\* Task t is between requireN's return and returnAll.
Experimenting(t) == pc[t] \in {"begin", "running", "loglock", "append"}

\* Task t is in a blocking wait.
Waiting(t) == pc[t] \in {"lock", "take", "tick", "running", "loglock"}

\* ------------------------------------------------------------------ claims

\* C1: at every instant the hosts held by the tasks are at most the initial
\* hosts, and hosts in the pool plus hosts held equal the initial hosts.
C1_PoolConservation ==
    /\ SumHeld(MaxRuns) <= Len(hosts)
    /\ Len(pool) + SumHeld(MaxRuns) = Len(hosts)

\* Two tasks hold hosts at once and the pool is empty.
C1_Witness ==
    \E t, u \in Tasks :
        t # u /\ Held(t) > 0 /\ Held(u) > 0 /\ returned[t] > 0 /\ pool = << >>

\* C2: once a requester has observed that n hosts are available (it is in
\* its take loop), no other requester removes a host from the pool before it
\* has taken its n.
C2_AtomicCheckAndTake ==
    [][\A t \in Tasks :
          pc[t] = "take" =>
              \A u \in Tasks \ {t} : Len(hs'[u]) <= Len(hs[u])]_vars

\* C3: every host a task removed from the pool is eventually back in it.
C3_EveryHostReturned ==
    \A i \in 1..MaxHosts :
        (\E t \in Tasks : \E h \in HeldHosts(t) : h.Hostname = i)
            ~> (\E h \in PoolHosts : h.Hostname = i)

\* C4: under fair scheduling every spawned task finishes and
\* runAllExperiments returns.
C4_EveryTaskFinishes ==
    /\ \A t \in Tasks : Spawned(t) ~> (pc[t] = "done")
    /\ <>(mainpc = "done")

\* C5: no host is held by two tasks at the same instant.
C5_HostHeldByAtMostOne ==
    \A t, u \in Tasks : t # u => HeldHosts(t) \cap HeldHosts(u) = {}

\* Two experiments run concurrently, each on its own hosts.
C5_Witness ==
    \E t, u \in Tasks : t # u /\ pc[t] = "running" /\ pc[u] = "running"

\* C6: an experiment whose run returned no error but whose stdout has no
\* line with the metric label (its result is the zero Result) has no record
\* in the result log.
C6_MissingLabelOmitted ==
    \A t \in Tasks :
        (err[t] = "nil" /\ res[t] = <<ZeroResult>>) => RecordsFor(t) = 0

\* C7: a failed experiment has no record; once runAllExperiments has
\* returned, the log holds exactly one record for each experiment whose
\* runExperiment returned no error and nothing else.
C7_FailuresOmittedSweepGoesOn ==
    /\ \A t \in Tasks : HasFailed(t) => RecordsFor(t) = 0
    /\ mainpc = "done" =>
          /\ \A t \in Tasks : RecordsFor(t) = IF err[t] = "nil" THEN 1 ELSE 0
          /\ \A i \in DOMAIN records : \E t \in Tasks :
                /\ records[i].Algo = Job(t).Algo
                /\ records[i].Partition = Job(t).Partition

\* The sweep has returned; one experiment failed and another is recorded.
C7_Witness ==
    /\ mainpc = "done"
    /\ \E t, u \in Tasks : HasFailed(t) /\ err[u] = "nil" /\ RecordsFor(u) = 1

\* C8: from entering runExperiment until returnAll a task holds exactly
\* len(partition) distinct hosts, none of them in the pool, it keeps the same
\* hosts for the whole run, and it pushes hosts back only after the run.
C8_HoldsExactlyWhileRunning ==
    /\ [](\A t \in Tasks :
            /\ Experimenting(t) =>
                  /\ Len(hs[t]) = Need(t)
                  /\ returned[t] = 0
                  /\ Cardinality(HeldHosts(t)) = Need(t)
                  /\ HeldHosts(t) \cap PoolHosts = {}
            /\ returned[t] > 0 => pc[t] = "return")
    /\ [][\A t \in Tasks :
            (Experimenting(t) /\ pc'[t] # "done") => hs'[t] = hs[t]]_vars

\* An experiment on a two-host partition is running.
C8_Witness ==
    \E t \in Tasks : pc[t] = "running" /\ Need(t) = 2 /\ Len(workers[t]) = 2

\* C9: a task waiting for pool availability or for its run does so under a
\* live timeout context.
C9_EveryWaitHasDeadline ==
    \A t \in Tasks : pc[t] \in {"take", "tick", "running"} => ctx[t] = "active"

\* C10: a task in a blocking wait holds neither the banker nor the
\* result-log lock.
C10_NoLockAcrossWait ==
    \A t \in Tasks : Waiting(t) => (banker # t /\ lock # t)

\* One task sleeps on the poll ticker while another waits for its run.
C10_Witness ==
    \E t, u \in Tasks : pc[t] = "tick" /\ pc[u] = "running"

\* C11: a task is spawned only for a partition no longer than the host list;
\* a longer partition is skipped and never receives a host; no task receives
\* more hosts than its partition has elements, and requireN returns exactly
\* that many.
C11_SpawnOnlyIfSufficient ==
    \A t \in Tasks :
        /\ Spawned(t) => Need(t) <= Len(hosts)
        /\ pc[t] = "skipped" =>
              (Need(t) > Len(hosts) /\ hs[t] = << >> /\ err[t] = "unset")
        /\ Len(hs[t]) <= Need(t)
        /\ pc[t] = "begin" => Len(hs[t]) = Need(t)

\* The sweep has ended with a partition skipped on a non-empty, intact pool.
C11_Witness ==
    /\ mainpc = "done"
    /\ Len(hosts) > 0
    /\ pool = hosts
    /\ \E t \in Tasks : pc[t] = "skipped"

\* C18: every host record in the pool or in a task's allocation has the
\* capacity it was parsed with.
C18_CarvingLeavesHostsUnchanged ==
    /\ \A i \in DOMAIN pool : pool[i] = hosts[pool[i].Hostname]
    /\ \A t \in Tasks : \A i \in DOMAIN hs[t] :
           hs[t][i] = hosts[hs[t][i].Hostname]

\* A host is back in the pool after an experiment that carved less than its
\* capacity out of it.
C18_Witness ==
    \E t \in Tasks :
        /\ pc[t] = "return"
        /\ err[t] = "nil"
        /\ returned[t] > 0
        /\ Job(t).Partition[1] < hs[t][1].Slots
        /\ hs[t][1] \in PoolHosts

\* C19: the result log only grows, by one record at a time and at its end;
\* each task has at most one record; a task that has appended has its
\* record; the log is never longer than the number of spawned tasks; the
\* lock is held exactly by the task that is appending.
C19_LogAppendOnly ==
    /\ [](/\ \A t \in Tasks :
               /\ RecordsFor(t) <= 1
               /\ (pc[t] = "return" /\ err[t] = "nil") => RecordsFor(t) = 1
               /\ lock = t <=> pc[t] = "append"
           /\ Len(records) <= Cardinality({u \in Tasks : Spawned(u)}))
    /\ [][/\ Len(records') >= Len(records)
           /\ Len(records') <= Len(records) + 1
           /\ SubSeq(records', 1, Len(records)) = records]_vars

\* Two tasks have appended their records.
C19_Witness == Len(records) = 2

\* C20: whenever returnAll has a host left to push, the pool has a free
\* slot.
C20_ReturnNeverBlocks ==
    \A t \in Tasks :
        (pc[t] = "return" /\ returned[t] < Len(hs[t])) => Len(pool) < PoolCap

\* A task is half way through returning two hosts while the other task is
\* still at work.
C20_Witness ==
    \E t, u \in Tasks :
        /\ t # u
        /\ pc[t] = "return" /\ returned[t] = 1 /\ Len(hs[t]) = 2
        /\ Spawned(u) /\ pc[u] # "done"

\* ------------------------------------------- reschedule and GenPeerList
\* Largest number of peers asked for with -np.
MaxPeers == 5

\* Slot counts of the hosts of a cluster of unequal hosts.
FnSlots == {1, 2, 4}

\* Host lists of up to MaxHosts hosts of any of these slot counts.
FnHostLists ==
    UNION {{Named(hl) : hl \in [1..n -> {[Hostname |-> 0, Slots |-> c] :
                                            c \in FnSlots}]} :
              n \in 0..MaxHosts}

\* The partitions of the sweep, the empty one and one of three hosts.
FnPartitions ==
    {Partitions[i] : i \in DOMAIN Partitions} \cup {<< >>, <<1, 1, 1>>}

\* The experiment sweep has not been started.
SweepIdle ==
    /\ hosts = << >>
    /\ first = 3
    /\ pool = << >>
    /\ banker = None
    /\ lock = None
    /\ wg = 0
    /\ records = << >>
    /\ mainpc = "sweep"
    /\ next = 0
    /\ pc = [t \in Tasks |-> "idle"]
    /\ hs = [t \in Tasks |-> << >>]
    /\ returned = [t \in Tasks |-> 0]
    /\ workers = [t \in Tasks |-> << >>]
    /\ ctx = [t \in Tasks |-> "none"]
    /\ err = [t \in Tasks |-> "unset"]
    /\ res = [t \in Tasks |-> NilResult]

FnInit ==
    /\ fn \in {[FnIdle EXCEPT !.op = "reschedule", !.hosts = hl,
                              !.partition = p] :
                  hl \in FnHostLists, p \in FnPartitions}
              \cup
              {[FnIdle EXCEPT !.op = "genPeerList", !.hosts = hl, !.np = n] :
                  hl \in FnHostLists, n \in 0..MaxPeers}
    /\ kr = KrIdle
    /\ SweepIdle

\* runExperiment's first step: workers, err := reschedule(hosts, partition).
CallReschedule ==
    /\ fn.op = "reschedule"
    /\ ~fn.done
    /\ LET r == reschedule(fn.hosts, fn.partition)
       IN  fn' = [fn EXCEPT !.done = TRUE, !.err = r.err, !.out = r.workers]
    /\ UNCHANGED <<kr, sweepVars>>

\* main's peers, err := hl.GenPeerList(*np).
CallGenPeerList ==
    /\ fn.op = "genPeerList"
    /\ ~fn.done
    /\ LET r == GenPeerList(fn.hosts, fn.np)
       IN  fn' = [fn EXCEPT !.done = TRUE, !.err = r.err, !.out = r.peers]
    /\ UNCHANGED <<kr, sweepVars>>

FnNext == CallReschedule \/ CallGenPeerList

FnSpec == FnInit /\ [][FnNext]_vars

\* C17: reschedule(hosts, partition) returns, when there are at least
\* len(partition) hosts and every hosts[i].Slots >= partition[i], exactly
\* len(partition) hosts, the i-th being hosts[i] with Slots = partition[i], so
\* that the total capacity is the sum of the partition; otherwise (fewer hosts
\* than partition elements, or a host with fewer slots than asked for) it
\* returns an error and no host list, which runExperiment hands on.
C17_RescheduleCarves ==
    (fn.op = "reschedule" /\ fn.done) =>
        LET hl   == fn.hosts
            p    == fn.partition
            fits == /\ Len(hl) >= Len(p)
                    /\ \A i \in DOMAIN p : hl[i].Slots >= p[i]
        IN  IF fits
            THEN /\ fn.err = "nil"
                 /\ Len(fn.out) = Len(p)
                 /\ \A i \in DOMAIN p :
                        fn.out[i] = [hl[i] EXCEPT !.Slots = p[i]]
                 /\ TotalCap(fn.out)
                        = TotalCap([i \in DOMAIN p |-> [Slots |-> p[i]]])
            ELSE /\ fn.err # "nil"
                 /\ fn.out = << >>

\* Two hosts were carved, the first to fewer slots than it has.
C17_Witness ==
    /\ fn.op = "reschedule"
    /\ fn.done
    /\ fn.err = "nil"
    /\ Len(fn.partition) = 2
    /\ fn.hosts[1].Slots > fn.partition[1]

\* C14: for n <= total capacity GenPeerList returns exactly n peers, the k-th
\* with rank k - 1 and cluster size n, placed by walking the hosts in list
\* order and filling each host's slots before the next (the local rank is
\* the rank less the slots of the hosts before); for n > total capacity it
\* fails and returns no peer list.
C14_GenPeerListDense ==
    (fn.op = "genPeerList" /\ fn.done) =>
        LET hl        == fn.hosts
            n         == fn.np
            ps        == fn.out
            Before(i) == TotalCap(SubSeq(hl, 1, i - 1))
        IN  IF n <= TotalCap(hl)
            THEN /\ fn.err = "nil"
                 /\ Len(ps) = n
                 /\ \A k \in DOMAIN ps :
                        /\ ps[k].Rank = k - 1
                        /\ ps[k].ClusterSize = n
                        /\ \E i \in DOMAIN hl :
                              /\ ps[k].Host = hl[i].Hostname
                              /\ ps[k].LocalRank = k - 1 - Before(i)
                              /\ ps[k].LocalRank >= 0
                              /\ ps[k].LocalRank < hl[i].Slots
            ELSE /\ fn.err # "nil"
                 /\ ps = << >>

\* Hosts of 2 and 2 slots and 3 peers: ranks 0 and 1 on the first host, rank
\* 2 with local rank 0 on the second.
C14_Witness ==
    /\ fn.op = "genPeerList"
    /\ fn.done
    /\ fn.np = 3
    /\ Len(fn.hosts) = 2
    /\ fn.hosts[1].Slots = 2
    /\ fn.hosts[2].Slots = 2
    /\ Len(fn.out) = 3
    /\ fn.out[2].Host = 1
    /\ fn.out[2].LocalRank = 1
    /\ fn.out[3].Host = 2
    /\ fn.out[3].LocalRank = 0

\* ------------------------------------------------------------ kungfu-run
\* Number of Stages the handler is followed pushing.
MaxPush == 2

\* main runs neither to its end nor to an exit yet.
KrAlive == kr.pc \notin {"none", "returned", ExitErr}

KrInit ==
    /\ kr \in {[KrIdle EXCEPT !.pc = "logfile", !.watch = w, !.keep = k,
                              !.timeout = d, !.np = n, !.hl = Named(hl),
                              !.self = a] :
                  w \in BOOLEAN, k \in BOOLEAN, d \in BOOLEAN,
                  n \in 0..MaxPeers, hl \in HostLists, a \in 0..MaxHosts}
    /\ fn = FnIdle
    /\ SweepIdle

\* if len(*logfile) > 0 { lf, err := os.Create(*logfile) ... }
MainLogfile ==
    /\ kr.pc = "logfile"
    /\ \E e \in {"nil", "create"} :
          kr' = [kr EXCEPT !.pc = OnErr(e, "args"),
                           !.preflight = IF e # "nil" THEN "logfile" ELSE @]
    /\ UNCHANGED <<fn, sweepVars>>

\* if len(restArgs) < 1 { utils.ExitErr(errMissingProgramName) }
MainArgs ==
    /\ kr.pc = "args"
    /\ \E nargs \in {0, 1} :
          LET e == IF nargs < 1 THEN "missing program name" ELSE "nil"
          IN  kr' = [kr EXCEPT !.pc = OnErr(e, "hostlist"),
                               !.preflight = IF e # "nil" THEN "program" ELSE @]
    /\ UNCHANGED <<fn, sweepVars>>

\* hl, err := plan.ParseHostList(*hostList)
MainParseHostList ==
    /\ kr.pc = "hostlist"
    /\ \E e \in {"nil", "parse"} :
          kr' = [kr EXCEPT !.pc = OnErr(e, "context"),
                           !.preflight = IF e # "nil" THEN "hostlist" ELSE @]
    /\ UNCHANGED <<fn, sweepVars>>

\* ctx, cancel := context.WithCancel(...), with a deadline if *timeout > 0;
\* then the branch on *watch.
MainContext ==
    /\ kr.pc = "context"
    /\ kr' = [kr EXCEPT !.ctx = IF kr.timeout THEN "deadline" ELSE "cancel",
                        !.pc = IF kr.watch THEN "peers" ELSE "procs"]
    /\ UNCHANGED <<fn, sweepVars>>

\* peers, err := hl.GenPeerList(*np)
MainGenPeerList ==
    /\ kr.pc = "peers"
    /\ LET r == GenPeerList(kr.hl, kr.np)
       IN  kr' = [kr EXCEPT !.pc = OnErr(r.err, "channel"),
                            !.peers = r.peers,
                            !.preflight = IF r.err # "nil" THEN "peers" ELSE @]
    /\ UNCHANGED <<fn, sweepVars>>

\* ch := make(chan run.Stage, 1); ch <- run.Stage{peers, *checkpoint}
MainMakeChan ==
    /\ kr.pc = "channel"
    /\ LET stage == [Cluster |-> kr.peers, Checkpoint |-> 0]
       IN  kr' = [kr EXCEPT !.ch = Append(<< >>, stage),
                            !.sent = {stage},
                            !.pc = "server"]
    /\ UNCHANGED <<fn, sweepVars>>

\* server, err := rch.NewServer(run.NewHandler(parent, ch))
MainNewServer ==
    /\ kr.pc = "server"
    /\ \E e \in {"nil", "listen"} :
          kr' = [kr EXCEPT !.pc = OnErr(e, "serve"),
                           !.server = IF e = "nil" THEN "created" ELSE @,
                           !.preflight = IF e # "nil" THEN "server" ELSE @]
    /\ UNCHANGED <<fn, sweepVars>>

\* go server.Serve(); defer server.Close()
MainGoServe ==
    /\ kr.pc = "serve"
    /\ kr' = [kr EXCEPT !.serve = "spawned",
                        !.server = IF CloseDeferred THEN @ ELSE "closed",
                        !.pc = "watch"]
    /\ UNCHANGED <<fn, sweepVars>>

\* The goroutine of server.Serve() begins to run.
ServeBegin ==
    /\ KrAlive
    /\ kr.serve = "spawned"
    /\ kr' = [kr EXCEPT !.serve = IF kr.server = "created" THEN "serving"
                                  ELSE "stopped"]
    /\ UNCHANGED <<fn, sweepVars>>

\* The handler takes a pushed Stage and puts it into the Stage channel.
HandlerPush ==
    /\ KrAlive
    /\ kr.serve = "serving"
    /\ kr.server = "created"
    /\ kr.pushes < MaxPush
    /\ \E n \in {kr.np - 1, kr.np} \cap Nat :
          LET stage == [Cluster |-> GenPeerList(kr.hl, n).peers,
                        Checkpoint |-> kr.pushes + 1]
          IN  kr' = [kr EXCEPT !.ch = Pushed(kr.ch, stage),
                               !.sent = @ \cup {stage},
                               !.pushes = @ + 1]
    /\ UNCHANGED <<fn, sweepVars>>

\* watchRun(ctx, selfIP, ch, jc) is entered: Idle.
WatchEnter ==
    /\ kr.pc = "watch"
    /\ kr.loop = "none"
    /\ kr' = [kr EXCEPT !.loop = "idle"]
    /\ UNCHANGED <<fn, sweepVars>>

\* Idle -> Running on receiving the first Stage.
WatchStart ==
    /\ kr.loop = "idle"
    /\ kr.ch # << >>
    /\ kr' = [kr EXCEPT !.cur = RecvValue(kr.ch),
                        !.ch = RecvRest(kr.ch),
                        !.loop = "running",
                        !.started = TRUE]
    /\ UNCHANGED <<fn, sweepVars>>

\* Running: the poll finds a Stage; on a new checkpoint the local processes
\* are stopped and started again from it.
WatchPoll ==
    /\ kr.loop = "running"
    /\ kr.ch # << >>
    /\ LET new == RecvValue(kr.ch)
       IN  kr' = [kr EXCEPT !.cur = IF new.Checkpoint # kr.cur.Checkpoint
                                    THEN new ELSE @,
                            !.ch = RecvRest(kr.ch)]
    /\ UNCHANGED <<fn, sweepVars>>

\* Running -> Draining: the job's own processes finish.
WatchDrain ==
    /\ kr.loop = "running"
    /\ kr' = [kr EXCEPT !.loop = "draining"]
    /\ UNCHANGED <<fn, sweepVars>>

\* Draining -> Terminated unless keep is set: watchRun returns.
WatchTerminate ==
    /\ kr.loop = "draining"
    /\ ~kr.keep
    /\ kr' = [kr EXCEPT !.loop = "terminated", !.pc = "closing"]
    /\ UNCHANGED <<fn, sweepVars>>

\* main returns after watchRun: the deferred server.Close() runs.
MainClose ==
    /\ kr.pc = "closing"
    /\ kr' = [kr EXCEPT !.server = IF CloseDeferred THEN "closed" ELSE @,
                        !.serve = IF @ = "serving" THEN "stopped" ELSE @,
                        !.pc = "returned"]
    /\ UNCHANGED <<fn, sweepVars>>

\* procs, _, err := jc.CreateProcs(*np, kb.ParseStrategy(*algo))
MainCreateProcs ==
    /\ kr.pc = "procs"
    /\ LET r == CreateProcs(kr.hl, kr.np)
       IN  kr' = [kr EXCEPT !.pc = OnErr(r.err, "simple"),
                            !.procs = r.procs,
                            !.preflight = IF r.err # "nil" THEN "procs" ELSE @]
    /\ UNCHANGED <<fn, sweepVars>>

\* simpleRun up to the call of runner.LocalRunAll.
SimpleRunBegin ==
    /\ kr.pc = "simple"
    /\ LET myPs == ForHost(kr.self, kr.procs)
       IN  kr' = [kr EXCEPT !.myPs = myPs,
                            !.started = ~(Len(myPs) <= 0),
                            !.pc = IF Len(myPs) <= 0 THEN "returned"
                                   ELSE "localrun"]
    /\ UNCHANGED <<fn, sweepVars>>

\* What runner.LocalRunAll can return: the deadline only if there is one.
RunOutcomes ==
    {"nil", "process"} \cup (IF kr.ctx = "deadline" THEN {"deadline"} ELSE {})

\* runner.LocalRunAll returns and simpleRun tests its error.
SimpleRunEnd ==
    /\ kr.pc = "localrun"
    /\ \E e \in RunOutcomes :
          kr' = [kr EXCEPT !.runErr = e,
                           !.pc = IF SimpleRunFatal(e) THEN ExitErr
                                  ELSE "returned"]
    /\ UNCHANGED <<fn, sweepVars>>

KrNext ==
    \/ MainLogfile
    \/ MainArgs
    \/ MainParseHostList
    \/ MainContext
    \/ MainGenPeerList
    \/ MainMakeChan
    \/ MainNewServer
    \/ MainGoServe
    \/ ServeBegin
    \/ HandlerPush
    \/ WatchEnter
    \/ WatchStart
    \/ WatchPoll
    \/ WatchDrain
    \/ WatchTerminate
    \/ MainClose
    \/ MainCreateProcs
    \/ SimpleRunBegin
    \/ SimpleRunEnd

KrSpec == KrInit /\ [][KrNext]_vars

\* The errors the claims call pre-flight: missing program name, unparseable
\* host spec, peer-list and plan-build failure.
PreFlight == {"program", "hostlist", "peers", "procs"}

\* C12: in the simple path a run that ends with the deadline is no failure
\* (simpleRun returns), every other non-nil error of the runner exits the
\* invocation, and a node without local process specs starts nothing and
\* returns.
C12_SimpleRunOutcomes ==
    ~kr.watch =>
        /\ kr.runErr \in {"nil", "deadline"} => kr.pc = "returned"
        /\ kr.runErr \notin {"unset", "nil", "deadline"} => kr.pc = ExitErr
        /\ kr.pc = "localrun" => (kr.started /\ Len(kr.myPs) > 0)
        /\ kr.started => Len(ForHost(kr.self, kr.procs)) > 0
        /\ (kr.pc = "returned" /\ ForHost(kr.self, kr.procs) = << >>) =>
              (~kr.started /\ kr.runErr = "unset")
        /\ kr.runErr = "deadline" => kr.timeout

\* A run with a timeout ended with the deadline and main returned.
C12_Witness ==
    /\ ~kr.watch
    /\ kr.runErr = "deadline"
    /\ kr.pc = "returned"
    /\ kr.started

\* C13: after a missing program name, an unparseable host spec or a
\* peer-list or plan-build failure the invocation has exited, and no server
\* was created or served, no watch loop entered and no local process started.
C13_PreFlightAbortsBeforeEffects ==
    kr.preflight \in PreFlight =>
        /\ kr.pc = ExitErr
        /\ kr.server = "none"
        /\ kr.serve = "none"
        /\ kr.loop = "none"
        /\ ~kr.started

\* In watch mode more peers were asked for than the hosts have slots.
C13_Witness ==
    /\ kr.watch
    /\ kr.preflight = "peers"
    /\ kr.np > TotalCap(kr.hl)
    /\ kr.pc = ExitErr

C16_ServingBeforeWatchLoop ==
    kr.watch =>
        /\ kr.loop \in {"idle", "running", "draining"} => kr.serve = "serving"
        /\ kr.server = "closed" => kr.loop = "terminated"
        /\ kr.pc = "returned" =>
              (~kr.keep /\ kr.loop = "terminated" /\ kr.server = "closed")
        /\ kr.keep => (kr.loop # "terminated" /\ kr.server # "closed"
                          /\ kr.serve # "stopped")

\* C16 amended: the server is created and its Serve goroutine launched
\* before the watch loop starts, and serves from the moment that goroutine
\* runs; the rest as stated.
C16_ServeLaunchedBeforeWatchLoop ==
    kr.watch =>
        /\ kr.loop \in {"idle", "running", "draining"} =>
              (kr.server = "created" /\ kr.serve \in {"spawned", "serving"})
        /\ kr.server = "closed" => kr.loop = "terminated"
        /\ kr.pc = "returned" =>
              (~kr.keep /\ kr.loop = "terminated" /\ kr.server = "closed")
        /\ kr.keep => (kr.loop # "terminated" /\ kr.server # "closed"
                          /\ kr.serve # "stopped")

\* Without keep the loop ended and the serving endpoint was closed.
C16_Witness ==
    /\ kr.watch
    /\ ~kr.keep
    /\ kr.pc = "returned"
    /\ kr.loop = "terminated"
    /\ kr.server = "closed"
    /\ kr.serve = "stopped"

====
